---- MODULE Spec2Model ----
(***************************************************************************)
(* A model of the skillpath-assessment autograder: autograder/checks.py    *)
(* (process runner, language detection, static checks, program executor,   *)
(* output validator, error-path probe, unit-test runner) and               *)
(* autograder/run_grader.py (main: the scorer / orchestrator).             *)
(*                                                                         *)
(* One grading run is the sequence of steps of main(); pc is the position  *)
(* of main().  The working directory (files, text, summary, csv) and the   *)
(* behaviour of the submission's processes are the environment.            *)
(***************************************************************************)
EXTENDS Integers, Sequences, FiniteSets, TLC

VARIABLES
    weights,      \* rubric['weights']: check name -> points
    tol,          \* rubric['tolerances']['float'], in value units (1/100)
    langFlag,     \* args.lang: "python", "java" or "none"
    files,        \* names present in the working directory (not the artifacts)
    text,         \* source file name -> the set of patterns its text contains
    summary,      \* the artifact summary.json
    csv,          \* the artifact high_value_orders.csv
    world,        \* names the outcomes the submission's processes may show
    behaviour,    \* command -> the outcome it showed (a deterministic submission)
    pc,           \* position of main()
    lang,         \* main's lang
    static,       \* main's static
    score,        \* main's score
    checks,       \* details['checks']
    run_logs,     \* details['run_logs']
    ut_logs,      \* details['checks']['unit_tests']['logs']
    issues,       \* the issues validate_outputs returned
    trace,        \* the stages main() has performed in this run
    calls,        \* the run_cmd invocations of this run, with stage and outcome
    output,       \* what main() printed
    exitStatus,   \* sys.exit(main()); -1 while running
    run,          \* index of the grading run
    prevOutput    \* what the previous run printed, with its exit status

vars == <<weights, tol, langFlag, files, text, summary, csv, world, behaviour,
          pc, lang, static, score, checks, run_logs, ut_logs, issues, trace, calls,
          output, exitStatus, run, prevOutput>>

rubricVars == <<weights, tol, langFlag, text, world>>

(***************************************************************************)
(* Bounds of the model.                                                    *)
(***************************************************************************)
MaxWeight == 1        \* SpecScore: every weight is in 0..MaxWeight
MaxTol == 1           \* SpecValidate: tol in 0..MaxTol, values within MaxTol + 1 of the expected
MaxLineLen == 2       \* SpecValidate: length of the first line of the csv, in symbols
MaxRuns == 2          \* consecutive grading runs in the same directory

(***************************************************************************)
(* Names.                                                                  *)
(***************************************************************************)
CheckNames == {"functions", "control_flow", "oop", "file_io",
               "analytics_correctness", "error_handling", "unit_tests"}

SummaryKeys == {"total_revenue", "average_order_value", "orders_per_category",
                "top_category_by_revenue"}

Stages == <<"static", "execute", "validate", "probe", "tests">>

Abs(x) == IF x < 0 THEN -x ELSE x

RECURSIVE SumOver(_, _)
SumOver(f, S) ==
    IF S = {} THEN 0
    ELSE LET k == CHOOSE e \in S : TRUE IN f[k] + SumOver(f, S \ {k})

(***************************************************************************)
(* checks.py: exists, approx, language markers.                            *)
(***************************************************************************)
exists(p, fs, sm, cs) ==
    CASE p = "summary.json" -> sm.state # "absent"
      [] p = "high_value_orders.csv" -> cs.state # "absent"
      [] OTHER -> p \in fs

\* A comparison that leaves the boundary out.
approxStrict(a, b, t) == Abs(a - b) < t

approx(a, b, t) == Abs(a - b) <= t

detect_python_files(fs) ==
    \E p \in {"process_orders.py", "models.py"} : p \in fs

detect_java_files(fs) ==
    \E p \in {"Order.java", "OrderProcessor.java"} : p \in fs

(***************************************************************************)
(* checks.py: the static checks.  The text of a file is modelled by the    *)
(* set of the searched patterns that occur in it.                          *)
(***************************************************************************)
PyFunctionPatterns == {"def aggregate(", "def filter_high_value(", "def parse_args("}
PyControlPatterns == {"for ", "while ", "if "}

static_checks_python(fs, tx) ==
    LET main == "process_orders.py" \in fs
        mod == "models.py" \in fs
    IN  [raised |-> FALSE,
         ok |-> [functions |-> main /\ tx["process_orders.py"] \cap PyFunctionPatterns # {},
                 control_flow |-> main /\ tx["process_orders.py"] \cap PyControlPatterns # {},
                 oop |-> mod /\ "class Order" \in tx["models.py"]
                             /\ "def total" \in tx["models.py"]]]

\* re.search(r"for\\s*\\(|while\\s*\\(|if\\s*\\(", s): in a raw string the doubled
\* backslash is a literal backslash, so each "(" opens a group that is never closed
\* and re.search raises re.error("missing ), unterminated subpattern") whatever s is.
JavaControlPatternCompiles == FALSE

static_checks_java(fs, tx) ==
    LET main == "OrderProcessor.java" \in fs
        mod == "Order.java" \in fs
    IN  [raised |-> main /\ ~JavaControlPatternCompiles,
         ok |-> [functions |-> TRUE,
                 control_flow |-> main /\ JavaControlPatternCompiles
                                       /\ "for (" \in tx["OrderProcessor.java"],
                 oop |-> mod /\ "class Order" \in tx["Order.java"]
                             /\ "total(" \in tx["Order.java"]]]

(***************************************************************************)
(* checks.py: validate_outputs.  Numbers are in units of 1/100; the first  *)
(* line of the csv is a sequence of symbols: "H" the expected header text, *)
(* "_" a whitespace character, "x" any other text.                         *)
(***************************************************************************)
ExpectedTotalRevenue == 30347
ExpectedAverageOrderValue == 7587
ExpectedCounts == [Books |-> 2, Electronics |-> 1, Toys |-> 1]
ExpectedTop == "Electronics"
ExpectedHeader == <<"H">>

RECURSIVE lstrip(_)
lstrip(s) == IF s # <<>> /\ Head(s) = "_" THEN lstrip(Tail(s)) ELSE s

RECURSIVE rstrip(_)
rstrip(s) ==
    IF s # <<>> /\ s[Len(s)] = "_" THEN rstrip(SubSeq(s, 1, Len(s) - 1)) ELSE s

strip(s) == lstrip(rstrip(s))

MissingKeyIssue(k) ==
    CASE k = "total_revenue" -> "summary.json:total_revenue"
      [] k = "average_order_value" -> "summary.json:average_order_value"
      [] k = "orders_per_category" -> "summary.json:orders_per_category"
      [] k = "top_category_by_revenue" -> "summary.json:top_category_by_revenue"

HeaderIssues(cs) ==
    IF cs.state = "absent" THEN {"high_value_orders.csv"}
    ELSE IF strip(cs.line) # ExpectedHeader THEN {"high_value_orders.csv:header"}
    ELSE {}

validate_outputs(sm, cs, t) ==
    IF ~exists("summary.json", {}, sm, cs) THEN {"summary.json"}
    ELSE IF sm.state = "invalid" THEN {"summary.json"}
    ELSE LET s == sm.doc
             opc == s.orders_per_category
         IN  {MissingKeyIssue(k) : k \in SummaryKeys \ s.has}
             \cup (IF "total_revenue" \in s.has
                      /\ ~approx(s.total_revenue, ExpectedTotalRevenue, t)
                   THEN {"total_revenue"} ELSE {})
             \cup (IF "average_order_value" \in s.has
                      /\ ~approx(s.average_order_value, ExpectedAverageOrderValue, t)
                   THEN {"average_order_value"} ELSE {})
             \cup (IF "orders_per_category" \in s.has
                      /\ \E k \in DOMAIN ExpectedCounts :
                            k \notin DOMAIN opc \/ opc[k] # ExpectedCounts[k]
                   THEN {"orders_per_category"} ELSE {})
             \cup (IF "top_category_by_revenue" \in s.has
                      /\ s.top_category_by_revenue # ExpectedTop
                   THEN {"top_category_by_revenue"} ELSE {})
             \cup HeaderIssues(cs)

(***************************************************************************)
(* run_grader.py line 95: int(0.7 * total).  0.7 is the double             *)
(* 0x16666666666666 * 2^-53; the product with the integer total is the     *)
(* exact product rounded to 53 significant bits (nearest, ties to even),   *)
(* and int() drops the fraction.  Bit sequences are least significant      *)
(* bit first; bit i has weight 2^(i - 1 - MantissaBits).                   *)
(***************************************************************************)
MantissaBits == 53
ProductBits == 64

Bit07(i) ==
    IF i = MantissaBits THEN 1 ELSE IF (i - 1) % 4 \in {1, 2} THEN 1 ELSE 0

RECURSIVE MulBits(_, _, _)
MulBits(i, carry, t) ==
    IF i > ProductBits THEN <<>>
    ELSE LET s == (IF i <= MantissaBits THEN Bit07(i) * t ELSE 0) + carry
         IN  <<s % 2>> \o MulBits(i + 1, s \div 2, t)

RECURSIVE TopBit(_, _)
TopBit(bits, i) ==
    IF i = 0 THEN 0 ELSE IF bits[i] = 1 THEN i ELSE TopBit(bits, i - 1)

RECURSIVE AnyBit(_, _)
AnyBit(bits, i) == IF i <= 0 THEN FALSE ELSE bits[i] = 1 \/ AnyBit(bits, i - 1)

RECURSIVE BitsToInt(_, _, _)
BitsToInt(bits, lo, hi) ==
    IF hi < lo THEN 0 ELSE bits[hi] * 2 ^ (hi - lo) + BitsToInt(bits, lo, hi - 1)

PassMark(total) ==
    LET p == MulBits(1, 0, total)
        h == TopBit(p, ProductBits)
        k == h - MantissaBits
        roundUp == k > 0 /\ p[k] = 1 /\ (AnyBit(p, k - 1) \/ p[k + 1] = 1)
        ipart == BitsToInt(p, MantissaBits + 1, ProductBits)
        carryOut == \A i \in (k + 1)..MantissaBits : p[i] = 1
    IN  IF roundUp /\ carryOut THEN ipart + 1 ELSE ipart

(***************************************************************************)
(* Artifacts and process outcomes.  An outcome is the exit class of the    *)
(* child ("zero", "nonzero", or "timeout" when communicate() raised        *)
(* TimeoutExpired) and what the child wrote to the two artifacts.          *)
(***************************************************************************)
NoDoc ==
    [has |-> {}, total_revenue |-> 0, average_order_value |-> 0,
     orders_per_category |-> <<>>, top_category_by_revenue |-> ""]

GoodDoc ==
    [has |-> SummaryKeys, total_revenue |-> ExpectedTotalRevenue,
     average_order_value |-> ExpectedAverageOrderValue,
     orders_per_category |-> ExpectedCounts, top_category_by_revenue |-> ExpectedTop]

NoSummary == [state |-> "absent", doc |-> NoDoc]
BadSummary == [state |-> "invalid", doc |-> NoDoc]
GoodSummary == [state |-> "ok", doc |-> GoodDoc]
NoCsv == [state |-> "absent", line |-> <<>>]
GoodCsv == [state |-> "present", line |-> ExpectedHeader]

AbsentSummary == [state |-> "absent", doc |-> NoDoc, by |-> "none", epoch |-> 0]
AbsentCsv == [state |-> "absent", line |-> <<>>, by |-> "none", epoch |-> 0]

WriteSummary(old, c, by, epoch) ==
    IF c.state = "absent" THEN old
    ELSE [state |-> c.state, doc |-> c.doc, by |-> by, epoch |-> epoch]

WriteCsv(old, c, by, epoch) ==
    IF c.state = "absent" THEN old
    ELSE [state |-> c.state, line |-> c.line, by |-> by, epoch |-> epoch]

Outcome(exit, sm, cs) == [exit |-> exit, summary |-> sm, csv |-> cs]
Quiet(exit) == Outcome(exit, NoSummary, NoCsv)
Unset == Quiet("unset")
Exits == {"zero", "nonzero", "timeout"}

(***************************************************************************)
(* The worlds: which outcomes the submission's processes may show.         *)
(*   "wide": every exit class of every command, artifacts written in full  *)
(*           or not at all, and the grader is run again;                   *)
(*   "calm", "calm_again": processes that end in time;                     *)
(*   "validate": a program that exits with zero and writes any summary     *)
(*           beside a correct or no csv, or any first line beside a        *)
(*           correct, an unparseable or no summary.                        *)
(***************************************************************************)
RevenueValues ==
    (ExpectedTotalRevenue - MaxTol - 1)..(ExpectedTotalRevenue + MaxTol + 1)

AverageValues ==
    (ExpectedAverageOrderValue - MaxTol - 1)..(ExpectedAverageOrderValue + MaxTol + 1)

CountChoices ==
    {ExpectedCounts,
     [Books |-> 2, Electronics |-> 1, Toys |-> 1, Games |-> 1],
     [Books |-> 2, Electronics |-> 1],
     [Books |-> 1, Electronics |-> 1, Toys |-> 1]}

TopChoices == {ExpectedTop, "Books"}

Docs ==
    {[has |-> K,
      total_revenue |-> IF "total_revenue" \in K THEN r ELSE 0,
      average_order_value |-> IF "average_order_value" \in K THEN a ELSE 0,
      orders_per_category |-> IF "orders_per_category" \in K THEN n ELSE <<>>,
      top_category_by_revenue |-> IF "top_category_by_revenue" \in K THEN t ELSE ""] :
        K \in SUBSET SummaryKeys, r \in RevenueValues, a \in AverageValues,
        n \in CountChoices, t \in TopChoices}

Lines == UNION {[1..n -> {"H", "_", "x"}] : n \in 0..MaxLineLen}

Writes == {<<NoSummary, NoCsv>>, <<GoodSummary, GoodCsv>>}

Runs(w) ==
    CASE w = "wide" -> {Outcome(e, a[1], a[2]) : e \in Exits, a \in Writes}
      [] w = "validate" ->
            {Outcome("zero", sm, cs) :
                sm \in {NoSummary, BadSummary} \cup {[state |-> "ok", doc |-> d] : d \in Docs},
                cs \in {NoCsv, GoodCsv}}
            \cup {Outcome("zero", sm, cs) :
                sm \in {NoSummary, BadSummary, GoodSummary},
                cs \in {[state |-> "present", line |-> l] : l \in Lines}}
      [] OTHER -> {Outcome(e, a[1], a[2]) : e \in {"zero", "nonzero"}, a \in Writes}

Probes(w) ==
    CASE w = "wide" -> {Outcome(e, a[1], a[2]) : e \in Exits, a \in Writes}
      [] w = "validate" -> {Quiet("nonzero")}
      [] OTHER -> {Quiet(e) : e \in {"zero", "nonzero"}}

Tests(w) ==
    CASE w = "wide" -> {Quiet(e) : e \in Exits}
      [] w = "validate" -> {Quiet("zero")}
      [] OTHER -> {Quiet(e) : e \in {"zero", "nonzero"}}

Compiles(w) == IF w = "wide" THEN {Quiet(e) : e \in Exits} ELSE {Quiet("zero")}

Reruns(w) == w \in {"wide", "calm_again"}

Commands == {"javac_run", "run", "javac_probe", "probe", "javac_tests", "tests"}

\* The outcomes a command may show: the one it showed before, else any the world allows.
Oracle(cmd, allowed) ==
    IF behaviour[cmd].exit # "unset" THEN {behaviour[cmd]} ELSE allowed

Remember(took) ==
    [c \in Commands |-> IF c \in DOMAIN took THEN took[c] ELSE behaviour[c]]

(***************************************************************************)
(* checks.py: run_cmd.  The call as main() observes it: the command, the   *)
(* stage that issued it, its exit class, whether p.kill() ran and whether  *)
(* CheckError was raised.                                                  *)
(***************************************************************************)
run_cmd(stage, cmd, o) ==
    [stage |-> stage, cmd |-> cmd, exit |-> o.exit,
     killed |-> o.exit = "timeout", raised |-> o.exit = "timeout"]

Compiled(fs, c) ==
    IF c.exit = "zero" /\ "OrderProcessor.java" \in fs
    THEN fs \cup {"OrderProcessor.class"} ELSE fs

(***************************************************************************)
(* checks.py: run_program, after its cleanup of the two artifacts.         *)
(* c is the outcome of javac, o the outcome of the program.                *)
(***************************************************************************)
EntryPoint(lg) == IF lg = "python" THEN "process_orders.py" ELSE "OrderProcessor.java"

run_program(lg, fs, c, o) ==
    IF EntryPoint(lg) \notin fs
    THEN [raised |-> TRUE, ok |-> FALSE, logs |-> "not found", calls |-> <<>>,
          took |-> <<>>, ran |-> FALSE, files |-> fs]
    ELSE IF lg = "python"
    THEN [raised |-> o.exit = "timeout", ok |-> o.exit = "zero",
          logs |-> IF o.exit = "timeout" THEN "timed out" ELSE "program output",
          calls |-> <<run_cmd("execute", "run", o)>>,
          took |-> [k \in {"run"} |-> o], ran |-> TRUE, files |-> fs]
    ELSE IF c.exit # "zero"
    THEN [raised |-> c.exit = "timeout", ok |-> FALSE,
          logs |-> IF c.exit = "timeout" THEN "timed out" ELSE "compiler output",
          calls |-> <<run_cmd("execute", "javac_run", c)>>,
          took |-> [k \in {"javac_run"} |-> c], ran |-> FALSE, files |-> fs]
    ELSE [raised |-> o.exit = "timeout", ok |-> o.exit = "zero",
          logs |-> IF o.exit = "timeout" THEN "timed out" ELSE "program output",
          calls |-> <<run_cmd("execute", "javac_run", c), run_cmd("execute", "run", o)>>,
          took |-> [k \in {"javac_run", "run"} |-> IF k = "run" THEN o ELSE c],
          ran |-> TRUE, files |-> Compiled(fs, c)]

(***************************************************************************)
(* checks.py: error_path_check.  raised: CheckError leaves the function.   *)
(***************************************************************************)
error_path_check(lg, fs, c, o) ==
    IF lg = "python"
    THEN [raised |-> o.exit = "timeout", pass |-> o.exit # "zero",
          calls |-> <<run_cmd("probe", "probe", o)>>,
          took |-> [k \in {"probe"} |-> o], ran |-> TRUE, files |-> fs]
    ELSE IF c.exit = "timeout"
    THEN [raised |-> TRUE, pass |-> FALSE,
          calls |-> <<run_cmd("probe", "javac_probe", c)>>,
          took |-> [k \in {"javac_probe"} |-> c], ran |-> FALSE, files |-> fs]
    ELSE [raised |-> o.exit = "timeout", pass |-> o.exit # "zero",
          calls |-> <<run_cmd("probe", "javac_probe", c), run_cmd("probe", "probe", o)>>,
          took |-> [k \in {"javac_probe", "probe"} |-> IF k = "probe" THEN o ELSE c],
          ran |-> TRUE, files |-> Compiled(fs, c)]

(***************************************************************************)
(* checks.py: run_unit_tests.  Only the Java branch catches the timeout.   *)
(***************************************************************************)
HasJavaTests(fs) == "OrderTest.java" \in fs

run_unit_tests(lg, fs, c, o) ==
    IF lg = "python" /\ exists("tests", fs, NoSummary, NoCsv)
    THEN [raised |-> o.exit = "timeout", pass |-> o.exit = "zero",
          logs |-> "test output",
          calls |-> <<run_cmd("tests", "tests", o)>>,
          took |-> [k \in {"tests"} |-> o], ran |-> TRUE, files |-> fs]
    ELSE IF lg = "java" /\ HasJavaTests(fs)
    THEN IF c.exit = "timeout"
         THEN [raised |-> FALSE, pass |-> FALSE, logs |-> "JUnit run failed",
               calls |-> <<run_cmd("tests", "javac_tests", c)>>,
               took |-> [k \in {"javac_tests"} |-> c], ran |-> FALSE, files |-> fs]
         ELSE [raised |-> FALSE, pass |-> o.exit = "zero",
               logs |-> IF o.exit = "timeout" THEN "JUnit run failed" ELSE "test output",
               calls |-> <<run_cmd("tests", "javac_tests", c), run_cmd("tests", "tests", o)>>,
               took |-> [k \in {"javac_tests", "tests"} |-> IF k = "tests" THEN o ELSE c],
               ran |-> TRUE, files |-> Compiled(fs, c)]
    ELSE [raised |-> FALSE, pass |-> TRUE, logs |-> "",
          calls |-> <<>>, took |-> <<>>, ran |-> FALSE, files |-> fs]

(***************************************************************************)
(* run_grader.py: main(), one action per stage.                            *)
(***************************************************************************)
\* Points granted whatever the outcome.
GainedAlways(k, pass) == weights[k]

Gained(k, pass) == IF pass THEN weights[k] ELSE 0

CheckRecord(k, pass) ==
    [recorded |-> TRUE, pass |-> pass, points |-> Gained(k, pass), max |-> weights[k]]

Unrecorded == [recorded |-> FALSE, pass |-> FALSE, points |-> 0, max |-> 0]
NoStatic == [functions |-> FALSE, control_flow |-> FALSE, oop |-> FALSE]
NoOutput == [kind |-> "none"]

\* An exception leaves main(): the interpreter prints a traceback and exits with 1.
Crash ==
    /\ pc' = "crashed"
    /\ exitStatus' = 1

\* A detection that knows the Python markers only.
DetectedLangPythonOnly(flag, fs) ==
    IF flag # "none" THEN flag
    ELSE IF detect_python_files(fs) THEN "python"
    ELSE "none"

DetectedLang(flag, fs) ==
    IF flag # "none" THEN flag
    ELSE IF detect_python_files(fs) THEN "python"
    ELSE IF detect_java_files(fs) THEN "java"
    ELSE "none"

Detect ==
    /\ pc = "detect"
    /\ LET l == DetectedLang(langFlag, files)
       IN  IF l = "none"
           THEN /\ output' = [kind |-> "error", error |-> "Could not detect language"]
                /\ exitStatus' = 2
                /\ pc' = "done"
                /\ lang' = lang
           ELSE /\ lang' = l
                /\ pc' = "static"
                /\ UNCHANGED <<output, exitStatus>>
    /\ UNCHANGED <<rubricVars, files, summary, csv, behaviour, static, score, checks,
                   run_logs, ut_logs, issues, trace, calls, run, prevOutput>>

StaticChecks ==
    /\ pc = "static"
    /\ trace' = Append(trace, "static")
    /\ LET r == IF lang = "python" THEN static_checks_python(files, text)
                ELSE static_checks_java(files, text)
       IN  IF r.raised
           THEN /\ Crash
                /\ UNCHANGED <<static, score, checks>>
           ELSE /\ static' = r.ok
                /\ score' = score + Gained("functions", r.ok.functions)
                                  + Gained("control_flow", r.ok.control_flow)
                                  + Gained("oop", r.ok.oop)
                /\ checks' = [k \in CheckNames |->
                                IF k \in {"functions", "control_flow", "oop"}
                                THEN CheckRecord(k, r.ok[k]) ELSE checks[k]]
                /\ pc' = "run"
                /\ UNCHANGED exitStatus
    /\ UNCHANGED <<rubricVars, files, summary, csv, behaviour, lang, run_logs, ut_logs,
                   issues, calls, output, run, prevOutput>>

\* run_program lines 102-105: os.remove of an existing artifact.
\* A cleanup that leaves summary.json in place.
CleanSummaryKept(sm) == sm

CleanSummary(sm) == AbsentSummary
CleanCsv(cs) == AbsentCsv

RunProgram ==
    /\ pc = "run"
    /\ trace' = Append(trace, "execute")
    /\ \E c \in Oracle("javac_run", Compiles(world)), o \in Oracle("run", Runs(world)) :
         LET r == run_program(lang, files, c, o)
         IN  /\ summary' = IF r.ran THEN WriteSummary(CleanSummary(summary), o.summary, "run", run)
                           ELSE CleanSummary(summary)
             /\ csv' = IF r.ran THEN WriteCsv(CleanCsv(csv), o.csv, "run", run)
                       ELSE CleanCsv(csv)
             /\ files' = r.files
             /\ behaviour' = Remember(r.took)
             /\ calls' = calls \o r.calls
             /\ run_logs' = r.logs
             /\ score' = score + Gained("file_io", r.ok)
             /\ checks' = [checks EXCEPT !["file_io"] = CheckRecord("file_io", r.ok)]
    /\ pc' = "validate"
    /\ UNCHANGED <<rubricVars, lang, static, ut_logs, issues, output, exitStatus, run,
                   prevOutput>>

ValidateOutputs ==
    /\ pc = "validate"
    /\ trace' = Append(trace, "validate")
    /\ LET found == validate_outputs(summary, csv, tol)
       IN  /\ issues' = found
           /\ score' = score + Gained("analytics_correctness", found = {})
           /\ checks' = [checks EXCEPT !["analytics_correctness"] =
                            CheckRecord("analytics_correctness", found = {})]
    /\ pc' = "probe"
    /\ UNCHANGED <<rubricVars, files, summary, csv, behaviour, lang, static, run_logs,
                   ut_logs, calls, output, exitStatus, run, prevOutput>>

JavaSources(fs) == fs \cap {"Order.java", "OrderProcessor.java", "OrderTest.java"}

\* javac without source files prints its usage and fails.
CompileOutcomes(cmd, fs) ==
    IF JavaSources(fs) = {} THEN {Quiet("nonzero")} ELSE Oracle(cmd, Compiles(world))

\* The interpreter, or the JVM, fails at once when the script, or the class, is absent.
ProbeOutcomes(lg, fs, c) ==
    IF lg = "python" /\ "process_orders.py" \notin fs THEN {Quiet("nonzero")}
    ELSE IF lg = "java" /\ "OrderProcessor.class" \notin Compiled(fs, c)
    THEN {Quiet("nonzero")}
    ELSE Oracle("probe", Probes(world))

ErrorPathCheck ==
    /\ pc = "probe"
    /\ trace' = Append(trace, "probe")
    /\ \E c \in CompileOutcomes("javac_probe", files) :
       \E o \in ProbeOutcomes(lang, files, c) :
         LET r == error_path_check(lang, files, c, o)
         IN  /\ summary' = IF r.ran THEN WriteSummary(summary, o.summary, "probe", run)
                           ELSE summary
             /\ csv' = IF r.ran THEN WriteCsv(csv, o.csv, "probe", run) ELSE csv
             /\ files' = r.files
             /\ behaviour' = Remember(r.took)
             /\ calls' = calls \o r.calls
             /\ IF r.raised
                THEN /\ Crash
                     /\ UNCHANGED <<score, checks>>
                ELSE /\ score' = score + Gained("error_handling", r.pass)
                     /\ checks' = [checks EXCEPT !["error_handling"] =
                                      CheckRecord("error_handling", r.pass)]
                     /\ pc' = "tests"
                     /\ UNCHANGED exitStatus
    /\ UNCHANGED <<rubricVars, lang, static, run_logs, ut_logs, issues, output, run,
                   prevOutput>>

RunUnitTests ==
    /\ pc = "tests"
    /\ trace' = Append(trace, "tests")
    /\ \E c \in Oracle("javac_tests", Compiles(world)), o \in Oracle("tests", Tests(world)) :
         LET r == run_unit_tests(lang, files, c, o)
         IN  /\ summary' = IF r.ran THEN WriteSummary(summary, o.summary, "tests", run)
                           ELSE summary
             /\ csv' = IF r.ran THEN WriteCsv(csv, o.csv, "tests", run) ELSE csv
             /\ files' = r.files
             /\ behaviour' = Remember(r.took)
             /\ calls' = calls \o r.calls
             /\ IF r.raised
                THEN /\ Crash
                     /\ UNCHANGED <<score, checks, ut_logs>>
                ELSE /\ score' = score + Gained("unit_tests", r.pass)
                     /\ checks' = [checks EXCEPT !["unit_tests"] =
                                      CheckRecord("unit_tests", r.pass)]
                     /\ ut_logs' = r.logs
                     /\ pc' = "final"
                     /\ UNCHANGED exitStatus
    /\ UNCHANGED <<rubricVars, lang, static, run_logs, issues, output, run, prevOutput>>

Passed(sc, total) == sc >= PassMark(total)

Finalize ==
    /\ pc = "final"
    /\ LET total == SumOver(weights, DOMAIN weights)
           passed == Passed(score, total)
       IN  /\ output' = [kind |-> "report", lang |-> lang, checks |-> checks,
                         run_logs |-> run_logs, issues |-> issues, logs |-> ut_logs,
                         score |-> score, max_score |-> total, passed |-> passed]
           /\ exitStatus' = IF passed THEN 0 ELSE 1
    /\ pc' = "done"
    /\ UNCHANGED <<rubricVars, files, summary, csv, behaviour, lang, static, score,
                   checks, run_logs, ut_logs, issues, trace, calls, run, prevOutput>>

\* The grader is started again in the same working directory.
Rerun ==
    /\ pc \in {"done", "crashed"}
    /\ Reruns(world)
    /\ run < MaxRuns
    /\ run' = run + 1
    /\ prevOutput' = [out |-> output, status |-> exitStatus]
    /\ pc' = "detect"
    /\ lang' = "none"
    /\ static' = NoStatic
    /\ score' = 0
    /\ checks' = [k \in CheckNames |-> Unrecorded]
    /\ run_logs' = ""
    /\ ut_logs' = ""
    /\ issues' = {}
    /\ trace' = <<>>
    /\ calls' = <<>>
    /\ output' = NoOutput
    /\ exitStatus' = -1
    /\ UNCHANGED <<rubricVars, files, summary, csv, behaviour>>

Next ==
    \/ Detect
    \/ StaticChecks
    \/ RunProgram
    \/ ValidateOutputs
    \/ ErrorPathCheck
    \/ RunUnitTests
    \/ Finalize
    \/ Rerun

(***************************************************************************)
(* The inputs: rubrics, submissions, leftover artifacts and worlds.        *)
(***************************************************************************)
SourceFiles == {"process_orders.py", "models.py", "OrderProcessor.java", "Order.java"}

\* What the reference solution's files contain (solution/python); the Java files alike.
ReferenceText ==
    [f \in SourceFiles |->
        CASE f = "process_orders.py" ->
                 {"def aggregate(", "def filter_high_value(", "def parse_args(", "for ", "if "}
          [] f = "models.py" -> {"class Order", "def total"}
          [] f = "OrderProcessor.java" -> {"for ("}
          [] f = "Order.java" -> {"class Order", "total("}]

Submission(fs, tx) ==
    [files |-> fs, text |-> [f \in SourceFiles |-> IF f \in fs THEN tx[f] ELSE {}]]

TextChoices ==
    {[f \in SourceFiles |->
        CASE f = "process_orders.py" -> a
          [] f = "models.py" -> b
          [] f = "OrderProcessor.java" -> c
          [] f = "Order.java" -> d] :
        a \in SUBSET {"def parse_args(", "if "},
        b \in SUBSET {"class Order", "def total"},
        c \in SUBSET {"for ("},
        d \in SUBSET {"class Order", "total("}}

ReferenceSubmissions ==
    {Submission(fs, ReferenceText) : fs \in SUBSET (SourceFiles \cup {"tests", "OrderTest.java"})}

PythonSubmissions ==
    {Submission({"process_orders.py", "models.py", "tests"}, tx) :
        tx \in {t \in TextChoices : t["models.py"] \in {{}, ReferenceText["models.py"]}}}

Uniform(w) == [k \in CheckNames |-> w]

Leftovers(sm, cs) ==
    [summary |-> WriteSummary(AbsentSummary, sm, "stale", 0),
     csv |-> WriteCsv(AbsentCsv, cs, "stale", 0)]

InitWith(rubrics, tols, flags, submissions, leftovers, worlds) ==
    /\ weights \in rubrics
    /\ tol \in tols
    /\ langFlag \in flags
    /\ \E sub \in submissions : files = sub.files /\ text = sub.text
    /\ \E l \in leftovers : summary = l.summary /\ csv = l.csv
    /\ world \in worlds
    /\ behaviour = [c \in Commands |-> Unset]
    /\ pc = "detect"
    /\ lang = "none"
    /\ static = NoStatic
    /\ score = 0
    /\ checks = [k \in CheckNames |-> Unrecorded]
    /\ run_logs = ""
    /\ ut_logs = ""
    /\ issues = {}
    /\ trace = <<>>
    /\ calls = <<>>
    /\ output = NoOutput
    /\ exitStatus = -1
    /\ run = 1
    /\ prevOutput = [out |-> NoOutput, status |-> -1]

Flags == {"none", "python", "java"}

\* Any reference files, any flag, leftovers or none, every process outcome, two runs.
Init ==
    InitWith({Uniform(1)}, {1}, Flags, ReferenceSubmissions,
             {Leftovers(NoSummary, NoCsv), Leftovers(GoodSummary, GoodCsv)}, {"wide"})

Spec == Init /\ [][Next]_vars

(***************************************************************************)
(* SpecScore: rubrics with zero weights anywhere, a rubric of distinct     *)
(* powers of two (the score names the passing checks) and a rubric of 90   *)
(* points, against Python submissions that reach every pass/fail outcome.  *)
(***************************************************************************)
DistinctWeights ==
    [functions |-> 1, control_flow |-> 2, oop |-> 4, file_io |-> 8,
     analytics_correctness |-> 16, error_handling |-> 32, unit_tests |-> 64]

NinetyPoints ==
    [functions |-> 12, control_flow |-> 10, oop |-> 10, file_io |-> 20,
     analytics_correctness |-> 18, error_handling |-> 10, unit_tests |-> 10]

ScoreRubrics ==
    {[k \in CheckNames |-> IF k \in Z THEN 0 ELSE w] :
        Z \in SUBSET CheckNames, w \in 1..MaxWeight}
    \cup {DistinctWeights, NinetyPoints}

InitScore ==
    \/ InitWith(ScoreRubrics, {1}, {"python"}, PythonSubmissions,
                {Leftovers(NoSummary, NoCsv)}, {"calm"})
    \/ InitWith({DistinctWeights}, {1}, {"python"},
                {Submission({"process_orders.py", "models.py", "tests"}, ReferenceText)},
                {Leftovers(NoSummary, NoCsv)}, {"calm_again"})

SpecScore == InitScore /\ [][Next]_vars

(***************************************************************************)
(* SpecValidate: the reference Python submission writing any summary and   *)
(* any first line, under every tolerance.                                  *)
(***************************************************************************)
ReferencePython == Submission({"process_orders.py", "models.py"}, ReferenceText)

InitValidate ==
    \/ InitWith({Uniform(1)}, 0..MaxTol, {"python"}, {ReferencePython},
                {Leftovers(NoSummary, NoCsv)}, {"validate"})
    \/ InitWith({Uniform(1)}, {0}, {"python"}, {ReferencePython},
                {Leftovers(GoodSummary, GoodCsv)}, {"calm_again"})

SpecValidate == InitValidate /\ [][Next]_vars

(***************************************************************************)
(* Properties.                                                             *)
(***************************************************************************)
Ended == pc \in {"done", "crashed"}
Reported == pc = "done" /\ output.kind = "report"
ScoreFields == {"score", "max_score", "passed", "checks"}
MarkerFiles == {"process_orders.py", "models.py", "Order.java", "OrderProcessor.java"}
TimedOut(i) == calls[i].exit = "timeout"

StageCheck(stage) ==
    CASE stage = "execute" -> "file_io"
      [] stage = "probe" -> "error_handling"
      [] stage = "tests" -> "unit_tests"

\* C1: in every report the score is the sum of the weights of exactly the passing
\* checks, every check record has points = weight if pass else 0 and max = weight,
\* max_score is the sum of all weights, and 0 <= score <= max_score.
ScoreIsSumOfPassing ==
    Reported =>
        /\ \A k \in CheckNames :
              /\ output.checks[k].recorded
              /\ output.checks[k].max = weights[k]
              /\ output.checks[k].points = (IF output.checks[k].pass THEN weights[k] ELSE 0)
        /\ output.score =
              SumOver(weights, {k \in CheckNames : output.checks[k].pass})
        /\ output.max_score = SumOver(weights, CheckNames)
        /\ 0 <= output.score
        /\ output.score <= output.max_score

\* C1 witness: a report under the rubric of distinct weights with checks of both
\* outcomes: functions, analytics_correctness and error_handling pass, the rest fail.
ScoreIsSumOfPassingWitness ==
    /\ Reported
    /\ weights = DistinctWeights
    /\ {k \in CheckNames : output.checks[k].pass}
          = {"functions", "analytics_correctness", "error_handling"}
    /\ output.score = 49

\* C2: in every report, passed is true iff score >= floor(0.70 * max_score).
PassedIffSeventyPercent ==
    Reported => (output.passed <=> output.score >= (7 * output.max_score) \div 10)

\* C3: the exit status is 2 exactly when no --lang flag is given and no marker file
\* is present, and then no stage and no process has run and only an error record
\* without score fields is printed; every other completed run exits with 0 if passed
\* and with 1 otherwise.
ExitStatusRule ==
    Ended =>
        /\ exitStatus = 2 <=> (langFlag = "none" /\ files \cap MarkerFiles = {})
        /\ exitStatus = 2 =>
              /\ trace = <<>>
              /\ calls = <<>>
              /\ output.kind = "error"
              /\ DOMAIN output \cap ScoreFields = {}
        /\ (pc = "done" /\ exitStatus # 2) =>
              /\ output.kind = "report"
              /\ exitStatus = (IF output.passed THEN 0 ELSE 1)

\* C3 witness: a run without flag and markers has ended with status 2.
ExitStatusRuleWitness ==
    /\ pc = "done"
    /\ exitStatus = 2
    /\ langFlag = "none"
    /\ files \cap MarkerFiles = {}

\* C4: whenever an external invocation timed out, the child was killed, the check
\* of the stage that issued it is recorded as failed with zero points, every stage
\* has run and the full report is printed.
TimeoutsNeverCrash ==
    (Ended /\ \E i \in DOMAIN calls : TimedOut(i)) =>
        /\ Reported
        /\ trace = Stages
        /\ \A i \in DOMAIN calls :
              TimedOut(i) =>
                  /\ calls[i].killed
                  /\ ~output.checks[StageCheck(calls[i].stage)].pass
                  /\ output.checks[StageCheck(calls[i].stage)].points = 0

\* C5: once a language is determined, the five stages are each performed exactly
\* once and in order whatever the earlier stages found; a failed execution is
\* recorded as file_io failed and the later stages still run.
StagesRunOnceInOrder ==
    (Ended /\ lang # "none") =>
        /\ pc = "done"
        /\ trace = Stages
        /\ \A k \in CheckNames : checks[k].recorded

\* C6: validate_outputs reports every defect: an entry for each missing artifact,
\* whatever the state of the other one, and an entry for each missing field.
AllDefectsReported ==
    pc = "probe" =>
        /\ summary.state = "absent" => "summary.json" \in issues
        /\ csv.state = "absent" => "high_value_orders.csv" \in issues
        /\ summary.state = "ok" =>
              \A k \in SummaryKeys \ summary.doc.has : MissingKeyIssue(k) \in issues

CountsMatch(opc) ==
    /\ {"Books", "Electronics", "Toys"} \subseteq DOMAIN opc
    /\ opc["Books"] = 2
    /\ opc["Electronics"] = 1
    /\ opc["Toys"] = 1

SummaryCorrect ==
    /\ summary.state = "ok"
    /\ summary.doc.has = SummaryKeys
    /\ summary.doc.total_revenue - 30347 <= tol
    /\ 30347 - summary.doc.total_revenue <= tol
    /\ summary.doc.average_order_value - 7587 <= tol
    /\ 7587 - summary.doc.average_order_value <= tol
    /\ CountsMatch(summary.doc.orders_per_category)
    /\ summary.doc.top_category_by_revenue = "Electronics"

\* The line is the header text with whitespace, if anything, around it.
HeaderWithin(line) ==
    \E i \in DOMAIN line :
        /\ line[i] = "H"
        /\ \A j \in DOMAIN line \ {i} : line[j] = "_"

StaticSource(lg, k) ==
    IF lg = "python"
    THEN (IF k = "oop" THEN "models.py" ELSE "process_orders.py")
    ELSE (IF k = "oop" THEN "Order.java" ELSE "OrderProcessor.java")

\* C8: for both languages a static predicate whose source file is absent is false,
\* and its check scores zero points.
AbsentSourceFailsStaticCheck ==
    \A k \in {"functions", "control_flow", "oop"} :
        (checks[k].recorded /\ StaticSource(lang, k) \notin files) =>
            /\ ~static[k]
            /\ ~checks[k].pass
            /\ checks[k].points = 0

FreshArtifact(a) == a.state = "absent" \/ (a.by = "run" /\ a.epoch = run)

MissingEntryPointStillReports ==
    (Ended /\ lang # "none" /\ EntryPoint(lang) \notin files) =>
        /\ \A i \in DOMAIN calls : calls[i].stage # "execute"
        /\ Reported
        /\ trace = Stages
        /\ ~output.checks["file_io"].pass
        /\ output.checks["file_io"].points = 0
        /\ output.score < output.max_score

====
